---- MODULE Spec2Model ----
(***************************************************************************)
(* Model of the download aggregation of src/services/movieService.ts:     *)
(* fetchMovieDownloads(query, type, imdbId) fans out to up to four         *)
(* torrent indexers (YTS, EZTV, APIBay, SolidTorrents), joins them with    *)
(* Promise.allSettled, then concatenates, deduplicates by hash, drops      *)
(* dead torrents and sorts by seeds.                                       *)
(* Next to it: the title parser parseTorrentName, the response cache of    *)
(* the metadata client, and the loading effect of                          *)
(* src/components/DownloadModal.tsx.                                       *)
(*                                                                         *)
(* Strings the code inspects are sequences of one-character strings.       *)
(* A JavaScript number that may be undefined or NaN is a set: {} for       *)
(* undefined/NaN and {n} for the number n.  An optional string argument    *)
(* is a set the same way: {} for undefined, {s} for the string s.          *)
(***************************************************************************)
EXTENDS Integers, Sequences, FiniteSets, TLC

VARIABLES query, type, imdbId, cleanQuery, pc, promises, st, resp, value,
          fetches, served, allTorrents, uniqueTorrents, result

\* the number of fetchMovieDownloads calls made, and the HTTP status class of
\* each adapter's response where it is told apart ("any" where it is not:
\* no adapter reads response.ok or response.status)
VARIABLES calls, httpStatus

\* the shared response cache of the metadata client (per key: {} when absent,
\* {timestamp} when set), its requests in flight, and the clock Date.now()
VARIABLES apiCache, tmdbPending, now

\* arguments and result of a function applied on its own
VARIABLES fnArgs, fnOut, fnDone

\* DownloadModal: the isOpen prop, the state torrents and isLoading, and the
\* loadTorrents calls started so far, each with its locals and position
VARIABLES isOpen, torrents, isLoading, loads

callVars == <<query, type, imdbId, cleanQuery, pc, promises, st, resp, value,
              fetches, served, allTorrents, uniqueTorrents, result, calls, httpStatus>>

cacheVars == <<apiCache, tmdbPending, now>>

fnVars == <<fnArgs, fnOut, fnDone>>

modalVars == <<isOpen, torrents, isLoading, loads>>

vars == <<callVars, cacheVars, fnVars, modalVars>>

(***************************************************************************)
(* Bounds of the model.                                                    *)
(***************************************************************************)
\* total number of raw entries the indexers serve during one call
MaxEntries == 2
\* the largest seed count an indexer reports
MaxSeeds == 2

\* the number of entries an adapter keeps: results.slice(0, 8)
SliceLimit == 8

Undefined == "undefined"

AdapterOrder == <<"YTS", "EZTV", "APIBay", "Solid">>
AdapterIds == {"YTS", "EZTV", "APIBay", "Solid"}

Hashes == {"h1", "h2"}

\* cache keys of the metadata client: `${endpoint}?${params}&include_adult=...`
CacheKeys == {"movie/1"}

\* the keys under which getGenreList's two requests are cached, and the key
\* of its combined list
GenreKeys == {"genre/movie/list", "genre/tv/list"}

GenresCombined == "genres_combined"

AllKeys == CacheKeys \cup GenreKeys \cup {GenresCombined}

\* CACHE_DURATION = 1000 * 60 * 10, in clock ticks of five minutes
CACHE_DURATION == 2

\* the last tick of the clock
MaxTime == 3

\* the number of loadTorrents calls DownloadModal starts
MaxLoads == 2

\* the number of fetchMovieDownloads calls in a run with repeated calls
MaxCalls == 2

\* rows in the response given to one adapter on its own
MaxRows == 11

\* rows with a release title in the response of the episode indexer
MaxReleases == 2

(***************************************************************************)
(* Inputs of a call.                                                       *)
(***************************************************************************)
Queries == {<<>>, <<" ">>, <<"a">>}
Types == {"movie", "tv"}
ImdbIds == {{}, {<<>>}, {<<"t", "t">>}, {<<"t", "t", "1">>}}

\* JavaScript truthiness of an optional string: defined and not ""
Truthy(s) == \E x \in s : x # <<>>

\* String.prototype.trim
RECURSIVE TrimLeft(_)
TrimLeft(s) ==
    IF s # <<>> /\ Head(s) = " " THEN TrimLeft(Tail(s)) ELSE s

RECURSIVE TrimRight(_)
TrimRight(s) ==
    IF s # <<>> /\ s[Len(s)] = " " THEN TrimRight(SubSeq(s, 1, Len(s) - 1)) ELSE s

Trim(s) == TrimRight(TrimLeft(s))

\* id.replace('tt', ''): the first occurrence of "tt" removed
RECURSIVE ReplaceTT(_)
ReplaceTT(s) ==
    IF Len(s) < 2 THEN s
    ELSE IF s[1] = "t" /\ s[2] = "t" THEN SubSeq(s, 3, Len(s))
    ELSE <<Head(s)>> \o ReplaceTT(Tail(s))

cleanImdbId(id) == IF Truthy(id) THEN {ReplaceTT(x) : x \in id} ELSE {}

(***************************************************************************)
(* Text.  TLA+ strings are atoms, so the text of a title is looked up in   *)
(* TitleText; the functions below work on sequences of characters.         *)
(***************************************************************************)
UpperCase == <<"A", "B", "C", "D", "E", "F", "G", "H", "I", "J", "K", "L", "M",
               "N", "O", "P", "Q", "R", "S", "T", "U", "V", "W", "X", "Y", "Z">>

LowerCase == <<"a", "b", "c", "d", "e", "f", "g", "h", "i", "j", "k", "l", "m",
               "n", "o", "p", "q", "r", "s", "t", "u", "v", "w", "x", "y", "z">>

Digits == {"0", "1", "2", "3", "4", "5", "6", "7", "8", "9"}

Lower(c) ==
    IF \E i \in 1..26 : UpperCase[i] = c
    THEN LowerCase[CHOOSE i \in 1..26 : UpperCase[i] = c] ELSE c

Upper(c) ==
    IF \E i \in 1..26 : LowerCase[i] = c
    THEN UpperCase[CHOOSE i \in 1..26 : LowerCase[i] = c] ELSE c

\* String.prototype.toUpperCase
ToUpperCase(s) == [i \in 1..Len(s) |-> Upper(s[i])]

\* the lower-case word w stands in s at position i, whatever the case of s
MatchesAt(s, i, w) ==
    /\ i + Len(w) - 1 <= Len(s)
    /\ \A j \in 1..Len(w) : Lower(s[i + j - 1]) = w[j]

\* new RegExp(w, 'i').test(s) for a word without metacharacters
ContainsWord(s, w) == \E i \in 1..Len(s) : MatchesAt(s, i, w)

\* a match that prefers the first alternative wherever it stands
FirstMatchByAlternative(s, words) ==
    LET found == {k \in 1..Len(words) : ContainsWord(s, words[k])}
    IN  IF found = {} THEN <<>>
        ELSE LET k == CHOOSE x \in found : \A y \in found : x <= y
                 i == CHOOSE x \in 1..Len(s) :
                         /\ MatchesAt(s, x, words[k])
                         /\ \A y \in 1..(x - 1) : ~MatchesAt(s, y, words[k])
             IN  SubSeq(s, i, i + Len(words[k]) - 1)

\* s.match(/w1|w2|.../i)?.[0]: the leftmost match, and at that position the
\* first alternative that matches; <<>> when there is none
FirstMatch(s, words) ==
    LET hits == {i \in 1..Len(s) : \E k \in 1..Len(words) : MatchesAt(s, i, words[k])}
    IN  IF hits = {} THEN <<>>
        ELSE LET i == CHOOSE x \in hits : \A y \in hits : x <= y
                 k == CHOOSE x \in 1..Len(words) :
                         /\ MatchesAt(s, i, words[x])
                         /\ \A y \in 1..(x - 1) : ~MatchesAt(s, i, words[y])
             IN  SubSeq(s, i, i + Len(words[k]) - 1)

\* the words of the regular expressions and the literals of parseTorrentName
Q2160 == <<"2", "1", "6", "0", "p">>
Q4K == <<"4", "k">>
Q1080 == <<"1", "0", "8", "0", "p">>
Q720 == <<"7", "2", "0", "p">>
Q480 == <<"4", "8", "0", "p">>
TBLURAY == <<"b", "l", "u", "r", "a", "y">>
TWEBDL == <<"w", "e", "b", "-", "d", "l">>
TWEBRIP == <<"w", "e", "b", "r", "i", "p">>
THDRIP == <<"h", "d", "r", "i", "p">>
TDVDRIP == <<"d", "v", "d", "r", "i", "p">>
CX265 == <<"x", "2", "6", "5">>
CHEVC == <<"h", "e", "v", "c">>
CX264 == <<"x", "2", "6", "4">>
SUnknown == <<"U", "n", "k", "n", "o", "w", "n">>
SWEBRip == <<"W", "E", "B", "R", "i", "p">>
SHevcSuffix == <<" ", "(", "H", "E", "V", "C", ")">>
SX264Suffix == <<" ", "(", "x", "2", "6", "4", ")">>
SUNKNOWN == <<"U", "N", "K", "N", "O", "W", "N">>
SHD == <<"H", "D">>

\* the characters of the titles the indexers report
TitleText(t) ==
    CASE t = "name" -> <<"n", "a", "m", "e">>
      [] t = "Show.S01E02.HDTV" -> <<"S", "h", "o", "w", ".", "S", "0", "1", "E", "0", "2", ".", "H", "D", "T", "V">>
      [] t = "Show.S02E02.HDTV" -> <<"S", "h", "o", "w", ".", "S", "0", "2", "E", "0", "2", ".", "H", "D", "T", "V">>
      [] t = "show.s01e10.720p" -> <<"s", "h", "o", "w", ".", "s", "0", "1", "e", "1", "0", ".", "7", "2", "0", "p">>
      [] t = "Show.S01E100.HDTV" -> <<"S", "h", "o", "w", ".", "S", "0", "1", "E", "1", "0", "0", ".", "H", "D", "T", "V">>

\* queries of the episode search
QShow == <<"S", "h", "o", "w">>
QShowS01E02 == <<"S", "h", "o", "w", " ", "S", "0", "1", "E", "0", "2">>
QShowS01E10 == <<"S", "h", "o", "w", " ", "S", "0", "1", "E", "1", "0">>

QualityWords == <<Q2160, Q4K, Q1080, Q720, Q480>>

TypeWords == <<TBLURAY, TWEBDL, TWEBRIP, THDRIP, TDVDRIP>>

HevcWords == <<CX265, CHEVC>>

parseTorrentName(name) ==
    LET q == FirstMatch(name, QualityWords)
        quality == IF q = <<>> THEN SUnknown ELSE q
        t == FirstMatch(name, TypeWords)
        base == IF t = <<>> THEN SWEBRip ELSE t
        type0 == IF FirstMatch(name, HevcWords) # <<>> THEN base \o SHevcSuffix
                 ELSE IF ContainsWord(name, CX264) THEN base \o SX264Suffix
                 ELSE base
    IN  [quality |-> ToUpperCase(quality), type |-> ToUpperCase(type0)]

\* the length of the run of digits of s that starts at position i
RECURSIVE DigitRun(_, _)
DigitRun(s, i) ==
    IF i <= Len(s) /\ s[i] \in Digits THEN 1 + DigitRun(s, i + 1) ELSE 0

\* /S(\d+)E(\d+)/i matches s at position i
SeasonEpisodeAt(s, i) ==
    /\ Lower(s[i]) = "s"
    /\ DigitRun(s, i + 1) > 0
    /\ i + 1 + DigitRun(s, i + 1) <= Len(s)
    /\ Lower(s[i + 1 + DigitRun(s, i + 1)]) = "e"
    /\ DigitRun(s, i + 2 + DigitRun(s, i + 1)) > 0

\* cleanQuery.match(/S(\d+)E(\d+)/i), as the lower-case source of the regular
\* expression `S${s}E${e}` built from its groups; <<>> when there is no match
SeasonEpisodePattern(s) ==
    LET hits == {i \in 1..Len(s) : SeasonEpisodeAt(s, i)}
    IN  IF hits = {} THEN <<>>
        ELSE LET i == CHOOSE x \in hits : \A y \in hits : x <= y
                 n1 == DigitRun(s, i + 1)
                 n2 == DigitRun(s, i + 2 + n1)
             IN  <<"s">> \o SubSeq(s, i + 1, i + n1) \o <<"e">>
                     \o SubSeq(s, i + 2 + n1, i + 1 + n1 + n2)

(***************************************************************************)
(* What an indexer can answer.  A raw entry is one row of the response;    *)
(* null marks a row that is JSON null, Undefined a missing field.          *)
(***************************************************************************)
\* (quality is the field the movie catalog reports; the others parse the title)
Entry(h, s) ==
    [null |-> FALSE, id |-> "1", hash |-> h, seeds |-> {s}, title |-> "name",
     quality |-> Q1080]

NullEntry ==
    [null |-> TRUE, id |-> "1", hash |-> Undefined, seeds |-> {}, title |-> Undefined,
     quality |-> Q1080]

NoSeedsEntry ==
    [null |-> FALSE, id |-> "1", hash |-> "h1", seeds |-> {}, title |-> "name",
     quality |-> Q1080]

NoTitleEntry ==
    [null |-> FALSE, id |-> "1", hash |-> "h2", seeds |-> {1}, title |-> Undefined,
     quality |-> Q1080]

SentinelEntry ==
    [null |-> FALSE, id |-> "0", hash |-> "h0", seeds |-> {1}, title |-> "name",
     quality |-> Q1080]

\* release titles of the episode indexer
ReleaseTitles ==
    {"Show.S01E02.HDTV", "Show.S02E02.HDTV", "show.s01e10.720p", "Show.S01E100.HDTV"}

Titles == {"name"} \cup ReleaseTitles

\* a row of the episode indexer with a release title
TitledEntry(t) == [Entry("h1", 1) EXCEPT !.title = t]

\* seed counts the indexers report: a dead swarm, one seeder, many seeders
SeedCounts == {0, 1, MaxSeeds}

WellFormedEntries == {Entry(h, s) : h \in Hashes, s \in SeedCounts}

SeqsUpTo(S, n) == UNION {[1..k -> S] : k \in 0..n}

\* lists with a row that is null, lacks a field or is the "no results" row
OddLists ==
    { <<NullEntry>>, <<NoSeedsEntry>>, <<NoTitleEntry>>, <<SentinelEntry>>,
      <<Entry("h1", 1), NullEntry>>, <<Entry("h2", 2), SentinelEntry>> }

\* a list whose row has a release title with a quality token
TitledLists == { <<TitledEntry("show.s01e10.720p")>> }

\* the parsed JSON body: JSON null, an object without the list, an object
\* whose list field is a non-empty string, or an object with the list
Bodies(n) ==
    {[kind |-> k, list |-> <<>>] : k \in {"null", "nolist", "string"}}
    \cup {[kind |-> "list", list |-> l] : l \in SeqsUpTo(WellFormedEntries, n)}
    \cup {[kind |-> "list", list |-> l] : l \in {o \in OddLists : Len(o) <= n}}
    \cup {[kind |-> "list", list |-> l] : l \in {o \in TitledLists : Len(o) <= n}}

\* a body of unexpected shape for adapter a: not an object, a list field of
\* the wrong type, or a row that is null or lacks a field the adapter reads
\* (the movie catalog reads no title)
MissingField(a, e) ==
    e.null \/ e.hash = Undefined \/ e.seeds = {} \/ (a # "YTS" /\ e.title = Undefined)

Malformed(a, body) ==
    \/ body.kind \in {"null", "string"}
    \/ \E i \in 1..Len(body.list) : MissingField(a, body.list[i])

\* what is remembered of an adapter's response
\* (thrown: the try block ended in catch; malformed: the body had an unexpected shape)
NoResp == [thrown |-> FALSE, malformed |-> FALSE]
NetErr == [thrown |-> TRUE, malformed |-> FALSE]
ParseErr == [thrown |-> TRUE, malformed |-> FALSE]
BodyResp(a, body, r) == [thrown |-> r.thrown, malformed |-> Malformed(a, body)]

(***************************************************************************)
(* The adapters.  Each returns [thrown, list]: whether its try block       *)
(* threw, and the candidates mapped so far.                                *)
(***************************************************************************)
\* const meta = parseTorrentName(t.title), for every title of the model
ParsedTitle == [t \in Titles |-> parseTorrentName(TitleText(t))]

\* a remap that lets the parser's fallback through
RemapNone(q) == q

\* meta.quality === 'UNKNOWN' ? 'HD' : meta.quality
Remap(q) == IF q = SUNKNOWN THEN SHD ELSE q

\* (src and title are not fields of the code's object: they record which
\* adapter and which row the candidate came from)
Candidate(a, e) ==
    [hash |-> e.hash, seeds |-> e.seeds, src |-> a, title |-> e.title,
     quality |-> IF a = "YTS" THEN e.quality
                 ELSE Remap(ParsedTitle[e.title].quality)]

\* a slice that keeps every row
SliceAll(s, n) == s

Slice(s, n) == SubSeq(s, 1, IF Len(s) < n THEN Len(s) ELSE n)

\* reading a property of a null row throws; parseTorrentName(undefined) throws
Throws(a, e) == e.null \/ (a # "YTS" /\ e.title = Undefined)

RECURSIVE MapFrom(_, _, _)
MapFrom(a, raw, acc) ==
    IF raw = <<>> THEN [thrown |-> FALSE, list |-> acc]
    ELSE IF Throws(a, Head(raw)) THEN [thrown |-> TRUE, list |-> acc]
    ELSE MapFrom(a, Tail(raw), Append(acc, Candidate(a, Head(raw))))

Threw == [thrown |-> TRUE, list |-> <<>>]
Nothing == [thrown |-> FALSE, list |-> <<>>]

YTS(body) ==
    CASE body.kind = "null" -> Threw
      [] body.kind = "nolist" -> Nothing
      [] body.kind = "string" -> Threw
      [] body.kind = "list" -> MapFrom("YTS", body.list, <<>>)

\* regex.test(t.title): a missing title is tested as the text "undefined"
TitleMatches(pat, t) ==
    t.title # Undefined /\ ContainsWord(TitleText(t.title), pat)

\* results.filter(t => regex.test(t.title)) when the query holds S<n>E<n>
SeasonEpisodeFilter(cq, rows) ==
    LET pat == SeasonEpisodePattern(cq)
    IN  IF pat = <<>> THEN rows
        ELSE SelectSeq(rows, LAMBDA t : TitleMatches(pat, t))

EZTV(cq, body) ==
    CASE body.kind = "null" -> Threw
      [] body.kind = "nolist" -> Nothing
      [] body.kind = "string" -> Nothing
      [] body.kind = "list" ->
            \* the filter reads t.title of every row: a null row throws
            IF /\ SeasonEpisodePattern(cq) # <<>>
               /\ \E i \in 1..Len(body.list) : body.list[i].null
            THEN Threw
            ELSE MapFrom("EZTV",
                         Slice(SeasonEpisodeFilter(cq, body.list), SliceLimit), <<>>)

APIBay(body) ==
    CASE body.kind = "null" -> Nothing
      [] body.kind = "nolist" -> Nothing
      [] body.kind = "string" -> Nothing
      [] body.kind = "list" ->
            IF body.list = <<>> THEN Nothing
            ELSE IF body.list[1].null THEN Threw
            ELSE IF body.list[1].id = "0" THEN Nothing
            ELSE MapFrom("APIBay", Slice(body.list, SliceLimit), <<>>)

SolidTorrents(body) ==
    CASE body.kind = "null" -> Threw
      [] body.kind = "nolist" -> Nothing
      [] body.kind = "string" -> Threw
      [] body.kind = "list" ->
            IF body.list = <<>> THEN Nothing
            ELSE MapFrom("Solid", Slice(body.list, SliceLimit), <<>>)

RunAdapter(a, cq, body) ==
    CASE a = "YTS" -> YTS(body)
      [] a = "EZTV" -> EZTV(cq, body)
      [] a = "APIBay" -> APIBay(body)
      [] a = "Solid" -> SolidTorrents(body)

\* a catch that keeps the candidates mapped before the exception
AdapterValuePartial(r) == r.list

\* try { ... return mapped } catch (e) { console.warn } return []
AdapterValue(r) == IF r.thrown THEN <<>> ELSE r.list

(***************************************************************************)
(* Planning: which adapters are pushed onto promises, in source order.     *)
(***************************************************************************)
\* the episodic adapter started without looking at the cleaned identifier
EligibleAnyId(a, t, id) ==
    CASE a = "YTS" -> t = "movie"
      [] a = "EZTV" -> t = "tv" /\ Truthy(id)
      [] a = "APIBay" -> TRUE
      [] a = "Solid" -> TRUE

\* the movie catalog started only when an identifier is given
EligibleYtsNeedsId(a, t, id) ==
    CASE a = "YTS" -> t = "movie" /\ Truthy(id)
      [] a = "EZTV" -> t = "tv" /\ Truthy(id) /\ Truthy(cleanImdbId(id))
      [] a = "APIBay" -> TRUE
      [] a = "Solid" -> TRUE

\* the second general adapter started only as a fallback for series
EligibleSolidTvOnly(a, t, id) ==
    CASE a = "YTS" -> t = "movie"
      [] a = "EZTV" -> t = "tv" /\ Truthy(id) /\ Truthy(cleanImdbId(id))
      [] a = "APIBay" -> TRUE
      [] a = "Solid" -> t = "tv"

Eligible(a, t, id) ==
    CASE a = "YTS" -> t = "movie"
      [] a = "EZTV" -> t = "tv" /\ Truthy(id) /\ Truthy(cleanImdbId(id))
      [] a = "APIBay" -> TRUE
      [] a = "Solid" -> TRUE

\* adapters started one after the other: only the first eligible one runs
LaunchSequential(a, t, id) ==
    IF a = Head(SelectSeq(AdapterOrder, LAMBDA b : Eligible(b, t, id)))
    THEN "fetch" ELSE "none"

\* promises.push((async () => {...})()): the function is invoked at once and
\* runs to its await fetch(proxyUrl), so the request is out when push returns
Launch(a, t, id) == IF Eligible(a, t, id) THEN "fetch" ELSE "none"

PromisesFor(t, id) == SelectSeq(AdapterOrder, LAMBDA a : Eligible(a, t, id))

(***************************************************************************)
(* Fan-in: concatenate, deduplicate, filter, sort.                         *)
(***************************************************************************)
\* allTorrents overwritten by each fulfilled list instead of extended
RECURSIVE ConcatLast(_, _, _)
ConcatLast(ps, sts, vals) ==
    IF ps = <<>> THEN <<>>
    ELSE IF Len(ps) > 1 /\ ConcatLast(Tail(ps), sts, vals) # <<>>
         THEN ConcatLast(Tail(ps), sts, vals)
    ELSE IF sts[Head(ps)] = "fulfilled" THEN vals[Head(ps)] ELSE <<>>

\* the fulfilled lists joined from the last promise to the first
RECURSIVE ConcatReversed(_, _, _)
ConcatReversed(ps, sts, vals) ==
    IF ps = <<>> THEN <<>>
    ELSE ConcatReversed(Tail(ps), sts, vals)
         \o (IF sts[Head(ps)] = "fulfilled" THEN vals[Head(ps)] ELSE <<>>)

RECURSIVE Concat(_, _, _)
Concat(ps, sts, vals) ==
    IF ps = <<>> THEN <<>>
    ELSE (IF sts[Head(ps)] = "fulfilled" THEN vals[Head(ps)] ELSE <<>>)
         \o Concat(Tail(ps), sts, vals)

\* Array.from(new Map(list.map(item => [item.hash, item])).values()):
\* keys keep the position of their first insertion, values are the last set
FirstIndex(list, h) == CHOOSE i \in 1..Len(list) :
    list[i].hash = h /\ \A j \in 1..(i - 1) : list[j].hash # h

LastIndex(list, h) == CHOOSE i \in 1..Len(list) :
    list[i].hash = h /\ \A j \in (i + 1)..Len(list) : list[j].hash # h

\* no deduplication
DedupNone(list) == list

\* a deduplication that keeps the first candidate of each hash
RECURSIVE DedupFirstFrom(_, _)
DedupFirstFrom(list, i) ==
    IF i > Len(list) THEN <<>>
    ELSE IF FirstIndex(list, list[i].hash) = i
         THEN <<list[i]>> \o DedupFirstFrom(list, i + 1)
         ELSE DedupFirstFrom(list, i + 1)

DedupFirst(list) == DedupFirstFrom(list, 1)

RECURSIVE DedupFrom(_, _)
DedupFrom(list, i) ==
    IF i > Len(list) THEN <<>>
    ELSE IF FirstIndex(list, list[i].hash) = i
         THEN <<list[LastIndex(list, list[i].hash)]>> \o DedupFrom(list, i + 1)
         ELSE DedupFrom(list, i + 1)

Dedup(list) == DedupFrom(list, 1)

\* t.seeds >= 0
AliveOrZero(t) == \E n \in t.seeds : n >= 0

\* t.seeds > 0; a comparison with undefined or NaN is false
Alive(t) == \E n \in t.seeds : n > 0

Filter(list) == SelectSeq(list, Alive)

SeedsOf(t) == CHOOSE n \in t.seeds : TRUE

\* (a, b) => a.seeds - b.seeds
BeforeAscending(b, a) == SeedsOf(a) - SeedsOf(b) > 0

\* a sort that puts an element before its equals
BeforeOrTie(b, a) == SeedsOf(b) - SeedsOf(a) >= 0

\* (a, b) => b.seeds - a.seeds: a positive result puts b before a
Before(b, a) == SeedsOf(b) - SeedsOf(a) > 0

\* Array.prototype.sort is stable: x goes after every element it does not precede
RECURSIVE Insert(_, _)
Insert(sorted, x) ==
    IF sorted = <<>> THEN <<x>>
    ELSE IF Before(x, Head(sorted)) THEN <<x>> \o sorted
    ELSE <<Head(sorted)>> \o Insert(Tail(sorted), x)

RECURSIVE SortFrom(_, _)
SortFrom(list, acc) ==
    IF list = <<>> THEN acc ELSE SortFrom(Tail(list), Insert(acc, Head(list)))

Sort(list) == SortFrom(list, <<>>)

(***************************************************************************)
(* The state machine of one call.                                          *)
(***************************************************************************)
CallInit ==
    /\ query = <<>>
    /\ type = "movie"
    /\ imdbId = {}
    /\ cleanQuery = <<>>
    /\ pc = "idle"
    /\ promises = <<>>
    /\ st = [a \in AdapterIds |-> "none"]
    /\ resp = [a \in AdapterIds |-> NoResp]
    /\ value = [a \in AdapterIds |-> <<>>]
    /\ fetches = [a \in AdapterIds |-> 0]
    /\ served = 0
    /\ allTorrents = <<>>
    /\ uniqueTorrents = <<>>
    /\ result = <<>>
    /\ calls = 0
    /\ httpStatus = [a \in AdapterIds |-> "any"]

\* apiCache = new Map(); no request of the metadata client is in flight
CacheInit ==
    /\ apiCache = [k \in AllKeys |-> {}]
    /\ tmdbPending = {}
    /\ now = 0

\* no function is being applied on its own
FnIdle ==
    /\ fnArgs = <<>>
    /\ fnOut = <<>>
    /\ fnDone = FALSE

\* useState([]), useState(false); the modal is closed, no effect has run
ModalInit ==
    /\ isOpen = FALSE
    /\ torrents = <<>>
    /\ isLoading = FALSE
    /\ loads = <<>>

Init == CallInit /\ CacheInit /\ FnIdle /\ ModalInit

(***************************************************************************)
(* One adapter on its own, applied to a response its indexer can give.     *)
(***************************************************************************)
\* a response with n rows, all well formed
LongList(n) ==
    [i \in 1..n |-> Entry(IF i % 2 = 1 THEN "h1" ELSE "h2", 1)]

CapInputs ==
    {[a |-> a, cleanQuery |-> <<"a">>, body |-> [kind |-> "list", list |-> LongList(n)]] :
        a \in AdapterIds, n \in 0..MaxRows}

\* titles as the episode search builds them, and a bare title
EpisodeQueries == {QShow, QShowS01E02, QShowS01E10}

EztvInputs ==
    {[a |-> "EZTV", cleanQuery |-> q, body |-> [kind |-> "list", list |-> l]] :
        q \in EpisodeQueries,
        l \in SeqsUpTo({TitledEntry(t) : t \in ReleaseTitles}, MaxReleases)}

AdapterInputs == CapInputs \cup EztvInputs

InitAdapter ==
    /\ CallInit
    /\ CacheInit
    /\ ModalInit
    /\ fnArgs \in AdapterInputs
    /\ fnOut = <<>>
    /\ fnDone = FALSE

\* the adapter's promise fulfils with the value of its async function
ApplyAdapter ==
    /\ ~fnDone
    /\ fnOut' = AdapterValue(RunAdapter(fnArgs.a, fnArgs.cleanQuery, fnArgs.body))
    /\ fnDone' = TRUE
    /\ UNCHANGED <<callVars, cacheVars, fnArgs, modalVars>>

\* a call that answers from a memo when its arguments repeat
CallCached(q, t, id) ==
    /\ pc = "idle"
    /\ IF calls > 0 /\ <<q, t, id>> = <<query, type, imdbId>>
       THEN /\ pc' = "done"
            /\ calls' = calls + 1
            /\ UNCHANGED <<query, type, imdbId, cleanQuery, promises, st, resp, value,
                           fetches, served, allTorrents, uniqueTorrents, result, httpStatus>>
       ELSE /\ query' = q
            /\ type' = t
            /\ imdbId' = id
            /\ pc' = IF q = <<>> THEN "done" ELSE "awaiting"
            /\ cleanQuery' = Trim(q)
            /\ promises' = IF q = <<>> THEN <<>> ELSE PromisesFor(t, id)
            /\ st' = [a \in AdapterIds |-> IF q = <<>> THEN "none" ELSE Launch(a, t, id)]
            /\ fetches' = [a \in AdapterIds |->
                        IF q # <<>> /\ Launch(a, t, id) = "fetch"
                        THEN fetches[a] + 1 ELSE fetches[a]]
            /\ calls' = calls + 1
            /\ UNCHANGED <<resp, value, served, allTorrents, uniqueTorrents, result, httpStatus>>
    /\ UNCHANGED <<cacheVars, fnVars, modalVars>>

\* fetchMovieDownloads is entered and runs up to its first await: every
\* eligible adapter is started and has issued its fetch
Call(q, t, id) ==
    /\ pc = "idle"
    /\ query' = q
    /\ type' = t
    /\ imdbId' = id
    /\ IF q = <<>>
       THEN /\ pc' = "done"
            /\ result' = <<>>
            /\ UNCHANGED <<cleanQuery, promises, st, fetches>>
       ELSE /\ pc' = "awaiting"
            /\ cleanQuery' = Trim(q)
            /\ promises' = PromisesFor(t, id)
            /\ st' = [a \in AdapterIds |-> Launch(a, t, id)]
            /\ fetches' = [a \in AdapterIds |->
                        IF Launch(a, t, id) = "fetch" THEN fetches[a] + 1 ELSE fetches[a]]
            /\ UNCHANGED result
    /\ calls' = calls + 1
    /\ UNCHANGED <<resp, value, served, allTorrents, uniqueTorrents, httpStatus>>
    /\ UNCHANGED <<cacheVars, fnVars, modalVars>>

\* a rejected fetch is issued again
FetchRejectRetry(a) ==
    /\ st[a] = "fetch"
    /\ fetches[a] < 2
    /\ fetches' = [fetches EXCEPT ![a] = fetches[a] + 1]
    /\ UNCHANGED <<query, type, imdbId, cleanQuery, pc, promises, st, resp, value,
                   served, allTorrents, uniqueTorrents, result, calls, httpStatus>>
    /\ UNCHANGED <<cacheVars, fnVars, modalVars>>

\* await fetch(proxyUrl) rejects: caught, the adapter returns []
FetchReject(a) ==
    /\ st[a] = "fetch"
    /\ st' = [st EXCEPT ![a] = "fulfilled"]
    /\ resp' = [resp EXCEPT ![a] = NetErr]
    /\ value' = [value EXCEPT ![a] = <<>>]
    /\ UNCHANGED <<query, type, imdbId, cleanQuery, pc, promises, fetches,
                   served, allTorrents, uniqueTorrents, result, calls, httpStatus>>
    /\ UNCHANGED <<cacheVars, fnVars, modalVars>>

\* await fetch(proxyUrl) resolves: the adapter goes on to response.json()
FetchResolve(a) ==
    /\ st[a] = "fetch"
    /\ st' = [st EXCEPT ![a] = "json"]
    /\ UNCHANGED <<query, type, imdbId, cleanQuery, pc, promises, resp, value,
                   fetches, served, allTorrents, uniqueTorrents, result, calls, httpStatus>>
    /\ UNCHANGED <<cacheVars, fnVars, modalVars>>

\* await fetch(proxyUrl) resolves with a response of status class s
\* ("success": 2xx, "failure": any other): fetch resolves either way and the
\* adapter goes on to response.json()
FetchResolveStatus(a, s) ==
    /\ st[a] = "fetch"
    /\ st' = [st EXCEPT ![a] = "json"]
    /\ httpStatus' = [httpStatus EXCEPT ![a] = s]
    /\ UNCHANGED <<query, type, imdbId, cleanQuery, pc, promises, resp, value,
                   fetches, served, allTorrents, uniqueTorrents, result, calls>>
    /\ UNCHANGED <<cacheVars, fnVars, modalVars>>

\* await response.json() rejects: caught, the adapter returns []
JsonReject(a) ==
    /\ st[a] = "json"
    /\ st' = [st EXCEPT ![a] = "fulfilled"]
    /\ resp' = [resp EXCEPT ![a] = ParseErr]
    /\ value' = [value EXCEPT ![a] = <<>>]
    /\ UNCHANGED <<query, type, imdbId, cleanQuery, pc, promises, fetches,
                   served, allTorrents, uniqueTorrents, result, calls, httpStatus>>
    /\ UNCHANGED <<cacheVars, fnVars, modalVars>>

\* await response.json() resolves with a body: the adapter maps it
JsonResolve(a, body) ==
    /\ st[a] = "json"
    /\ served + Len(body.list) <= MaxEntries
    /\ served' = served + Len(body.list)
    /\ st' = [st EXCEPT ![a] = "fulfilled"]
    /\ resp' = [resp EXCEPT ![a] = BodyResp(a, body, RunAdapter(a, cleanQuery, body))]
    /\ value' = [value EXCEPT ![a] = AdapterValue(RunAdapter(a, cleanQuery, body))]
    /\ UNCHANGED <<query, type, imdbId, cleanQuery, pc, promises, fetches,
                   allTorrents, uniqueTorrents, result, calls, httpStatus>>
    /\ UNCHANGED <<cacheVars, fnVars, modalVars>>

Settled(a) == st[a] \in {"fulfilled", "rejected"}

\* a join that resolves as soon as one promise has settled
JoinReadyAny(ps, sts) ==
    ps = <<>> \/ \E i \in 1..Len(ps) : sts[ps[i]] \in {"fulfilled", "rejected"}

\* Promise.allSettled(promises): resolves when every promise has settled
JoinReady(ps, sts) ==
    \A i \in 1..Len(ps) : sts[ps[i]] \in {"fulfilled", "rejected"}

\* Promise.allSettled(promises) resolves; the rest of the function runs
Join ==
    /\ pc = "awaiting"
    /\ JoinReady(promises, st)
    /\ allTorrents' = Concat(promises, st, value)
    /\ uniqueTorrents' = Dedup(allTorrents')
    /\ result' = Sort(Filter(uniqueTorrents'))
    /\ pc' = "done"
    /\ UNCHANGED <<query, type, imdbId, cleanQuery, promises, st, resp, value,
                   fetches, served, calls, httpStatus>>
    /\ UNCHANGED <<cacheVars, fnVars, modalVars>>

Next ==
    \/ \E q \in Queries, t \in Types, id \in ImdbIds : Call(q, t, id)
    \/ \E a \in AdapterIds : FetchReject(a)
    \/ \E a \in AdapterIds : FetchResolve(a)
    \/ \E a \in AdapterIds : JsonReject(a)
    \/ \E a \in AdapterIds : \E body \in Bodies(MaxEntries - served) : JsonResolve(a, body)
    \/ Join

Spec == Init /\ [][Next]_vars

\* the same call with the status class of every response told apart
NextHttp ==
    \/ \E q \in Queries, t \in Types, id \in ImdbIds : Call(q, t, id)
    \/ \E a \in AdapterIds : FetchReject(a)
    \/ \E a \in AdapterIds : \E s \in {"success", "failure"} : FetchResolveStatus(a, s)
    \/ \E a \in AdapterIds : JsonReject(a)
    \/ \E a \in AdapterIds : \E body \in Bodies(MaxEntries - served) : JsonResolve(a, body)
    \/ Join

SpecHttp == Init /\ [][NextHttp]_vars

(***************************************************************************)
(* Repeated calls next to the metadata client and its cache.               *)
(***************************************************************************)
\* cached && (Date.now() - cached.timestamp < CACHE_DURATION)
Fresh(k) == \E ts \in apiCache[k] : now - ts < CACHE_DURATION

\* fetchFromTMDB finds a fresh entry and returns cached.data
TmdbHit(k) ==
    /\ Fresh(k)
    /\ UNCHANGED vars

\* fetchFromTMDB finds no fresh entry and issues fetch(url)
\* (one request in flight per key)
TmdbRequest(k) ==
    /\ ~Fresh(k)
    /\ k \notin tmdbPending
    /\ tmdbPending' = tmdbPending \cup {k}
    /\ UNCHANGED <<apiCache, now, callVars, fnVars, modalVars>>

\* the response is ok and parses: apiCache.set(cacheKey, {data, timestamp: Date.now()})
TmdbStore(k) ==
    /\ k \in tmdbPending
    /\ tmdbPending' = tmdbPending \ {k}
    /\ apiCache' = [apiCache EXCEPT ![k] = {now}]
    /\ UNCHANGED <<now, callVars, fnVars, modalVars>>

\* the request fails, the status is not ok or the body does not parse: rethrown
TmdbThrow(k) ==
    /\ k \in tmdbPending
    /\ tmdbPending' = tmdbPending \ {k}
    /\ UNCHANGED <<apiCache, now, callVars, fnVars, modalVars>>

\* the caller has its result; the locals of the call are gone
Return ==
    /\ pc = "done"
    /\ calls < MaxCalls
    /\ pc' = "idle"
    /\ promises' = <<>>
    /\ st' = [a \in AdapterIds |-> "none"]
    /\ resp' = [a \in AdapterIds |-> NoResp]
    /\ value' = [a \in AdapterIds |-> <<>>]
    /\ allTorrents' = <<>>
    /\ uniqueTorrents' = <<>>
    /\ result' = <<>>
    /\ UNCHANGED <<query, type, imdbId, cleanQuery, fetches, served, calls, httpStatus>>
    /\ UNCHANGED <<cacheVars, fnVars, modalVars>>

\* the first call, with any arguments
FirstCall(q, t, id) == calls = 0 /\ Call(q, t, id)

\* a further call with the arguments of the one before
CallAgain == calls > 0 /\ Call(query, type, imdbId)

\* responses carry at most one row each, and the run is short enough for the
\* clock to stay where it is
NextCache ==
    \/ \E q \in Queries, t \in Types, id \in ImdbIds : FirstCall(q, t, id)
    \/ CallAgain
    \/ Return
    \/ \E a \in AdapterIds : FetchReject(a)
    \/ \E a \in AdapterIds : FetchResolve(a)
    \/ \E a \in AdapterIds : JsonReject(a)
    \/ \E a \in AdapterIds :
          \E body \in Bodies(IF served < MaxEntries THEN 1 ELSE 0) : JsonResolve(a, body)
    \/ Join
    \/ \E k \in CacheKeys : TmdbHit(k)
    \/ \E k \in CacheKeys : TmdbRequest(k)
    \/ \E k \in CacheKeys : TmdbStore(k)
    \/ \E k \in CacheKeys : TmdbThrow(k)

SpecCache == Init /\ [][NextCache]_vars

(***************************************************************************)
(* The metadata client and getGenreList while the clock advances.          *)
(* tmdbPending holds the keys with a request in flight and the marker      *)
(* GenreCall while a getGenreList call waits in Promise.all.               *)
(***************************************************************************)
GenreCall == "getGenreList"

\* Date.now() advances
Tick ==
    /\ now < MaxTime
    /\ now' = now + 1
    /\ UNCHANGED <<apiCache, tmdbPending, callVars, fnVars, modalVars>>

\* if (apiCache.has('genres_combined')) return apiCache.get('genres_combined')?.data
GenreHit ==
    /\ apiCache[GenresCombined] # {}
    /\ UNCHANGED vars

\* no combined entry: both fetchFromTMDB calls run to their first await (a
\* fresh entry is returned at once, otherwise a request is issued), then
\* await Promise.all
GenreStart ==
    /\ apiCache[GenresCombined] = {}
    /\ GenreCall \notin tmdbPending
    /\ tmdbPending' = tmdbPending \cup {GenreCall} \cup {k \in GenreKeys : ~Fresh(k)}
    /\ UNCHANGED <<apiCache, now, callVars, fnVars, modalVars>>

\* one of the two requests throws: Promise.all rejects and so does the call
GenreFetchThrow(k) ==
    /\ k \in tmdbPending
    /\ tmdbPending' = tmdbPending \ {k, GenreCall}
    /\ UNCHANGED <<apiCache, now, callVars, fnVars, modalVars>>

\* both results are there:
\* apiCache.set('genres_combined', {data: sortedGenres, timestamp: Date.now()})
GenreStore ==
    /\ GenreCall \in tmdbPending
    /\ tmdbPending \cap GenreKeys = {}
    /\ tmdbPending' = tmdbPending \ {GenreCall}
    /\ apiCache' = [apiCache EXCEPT ![GenresCombined] = {now}]
    /\ UNCHANGED <<now, callVars, fnVars, modalVars>>

NextExpiry ==
    \/ Tick
    \/ \E k \in CacheKeys : TmdbHit(k)
    \/ \E k \in CacheKeys : TmdbRequest(k)
    \/ \E k \in CacheKeys \cup GenreKeys : TmdbStore(k)
    \/ \E k \in CacheKeys : TmdbThrow(k)
    \/ GenreHit
    \/ GenreStart
    \/ \E k \in GenreKeys : GenreFetchThrow(k)
    \/ GenreStore

SpecExpiry == Init /\ [][NextExpiry]_vars

NextAdapter == ApplyAdapter

SpecAdapter == InitAdapter /\ [][NextAdapter]_vars

(***************************************************************************)
(* The title parser on its own, applied to release names.                  *)
(***************************************************************************)
\* the example of the parser's description
ExampleName == <<"M", "o", "v", "i", "e", ".", "N", "a", "m", "e", ".", "2", "0", "2", "4", ".", "1", "0", "8", "0", "p", ".", "B", "l", "u", "R", "a", "y", ".", "x", "2", "6", "5", "-", "G", "R", "O", "U", "P">>

\* how a release name can state its resolution (<<>>: it does not)
QualityParts ==
    { <<>>,
      <<"1", "0", "8", "0", "p">>,
      <<"7", "2", "0", "P">>,
      <<"4", "K">>,
      <<"2", "1", "6", "0", "p">>,
      <<"4", "8", "0", "p">>,
      <<"x", "1", "0", "8", "0", "p", "x">>,
      <<"7", "2", "0", "p", ".", "1", "0", "8", "0", "p">> }

\* how a release name can state its source
TypeParts ==
    { <<>>,
      <<"B", "l", "u", "R", "a", "y">>,
      <<"W", "E", "B", "-", "D", "L">>,
      <<"w", "e", "b", "r", "i", "p">>,
      <<"H", "D", "R", "i", "p">>,
      <<"D", "V", "D", "R", "i", "p">>,
      <<"d", "v", "d", "r", "i", "p", ".", "B", "l", "u", "R", "a", "y">> }

\* how a release name can state its codec
CodecParts ==
    { <<>>,
      <<"x", "2", "6", "5">>,
      <<"H", "E", "V", "C">>,
      <<"x", "2", "6", "4">>,
      <<"X", "2", "6", "4">>,
      <<"x", "2", "6", "4", ".", "x", "2", "6", "5">> }

ReleaseName(q, t, c) == <<"M", "o", "v", "i", "e", ".">> \o q \o <<".">> \o t \o <<".">> \o c

ParserInputs ==
    {[name |-> ExampleName]}
    \cup {[name |-> ReleaseName(q, t, c)] : q \in QualityParts, t \in TypeParts, c \in CodecParts}

InitParser ==
    /\ CallInit
    /\ CacheInit
    /\ ModalInit
    /\ fnArgs \in ParserInputs
    /\ fnOut = <<>>
    /\ fnDone = FALSE

ApplyParser ==
    /\ ~fnDone
    /\ fnOut' = parseTorrentName(fnArgs.name)
    /\ fnDone' = TRUE
    /\ UNCHANGED <<callVars, cacheVars, fnArgs, modalVars>>

NextParser == ApplyParser

SpecParser == InitParser /\ [][NextParser]_vars

(***************************************************************************)
(* DownloadModal: the effect that loads the torrents.  The lists that      *)
(* fetchMovieDownloads returns are drawn here from the empty list and a    *)
(* list that names the load it was returned to; getMovieDetails answers    *)
(* with or without an identifier, or throws.                               *)
(***************************************************************************)
\* content.imdb_id and fullDetails.imdb_id
ModalIds == {{}, {<<"t", "t", "1">>}}

MediaTypes == {"movie", "tv"}

\* results.length === 0 never holds
NeedsTitleSearchNever(results) == FALSE

\* if (results.length === 0)
NeedsTitleSearch(results) == results = <<>>

\* the load from the media-type branch on, up to its first await
\* (calls: the fetchMovieDownloads calls made; idResult: what the call with
\* the identifier returned)
Branch(media, id) ==
    IF media = "movie"
    THEN IF Truthy(id)
         THEN [media |-> media, imdbId |-> id, pc |-> "withId",
               calls |-> <<"id">>, idResult |-> {}, results |-> <<>>]
         ELSE [media |-> media, imdbId |-> id, pc |-> "byTitle",
               calls |-> <<"title">>, idResult |-> {}, results |-> <<>>]
    ELSE [media |-> media, imdbId |-> id, pc |-> "series",
          calls |-> <<"series">>, idResult |-> {}, results |-> <<>>]

\* the effect runs with isOpen true (the modal opens, or content, season or
\* episode change): loadTorrents() runs to its first await
StartLoad(media, id) ==
    /\ Len(loads) < MaxLoads
    /\ isOpen' = TRUE
    /\ isLoading' = TRUE
    /\ torrents' = <<>>
    /\ loads' = Append(loads,
                       IF Truthy(id) THEN Branch(media, id)
                       ELSE [media |-> media, imdbId |-> id, pc |-> "details",
                             calls |-> <<>>, idResult |-> {}, results |-> <<>>])
    /\ UNCHANGED <<callVars, cacheVars, fnVars>>

\* the isOpen prop becomes false: the effect runs and starts nothing
CloseModal ==
    /\ isOpen
    /\ isOpen' = FALSE
    /\ UNCHANGED <<torrents, isLoading, loads, callVars, cacheVars, fnVars>>

\* await getMovieDetails(...) resolves: imdbId = fullDetails.imdb_id
DetailsResolve(l, id) ==
    /\ loads[l].pc = "details"
    /\ loads' = [loads EXCEPT ![l] = Branch(loads[l].media, id)]
    /\ UNCHANGED <<isOpen, torrents, isLoading, callVars, cacheVars, fnVars>>

\* await getMovieDetails(...) rejects: catch (e) {}
DetailsReject(l) ==
    /\ loads[l].pc = "details"
    /\ loads' = [loads EXCEPT ![l] = Branch(loads[l].media, loads[l].imdbId)]
    /\ UNCHANGED <<isOpen, torrents, isLoading, callVars, cacheVars, fnVars>>

\* await fetchMovieDownloads(...) resolves with res: after the call with the
\* identifier an empty list starts the call by title; otherwise
\* setTorrents(results); setIsLoading(false)
AggResolve(l, res) ==
    /\ loads[l].pc \in {"withId", "byTitle", "series"}
    /\ IF loads[l].pc = "withId" /\ NeedsTitleSearch(res)
       THEN /\ loads' = [loads EXCEPT ![l].pc = "byTitle",
                                      ![l].calls = Append(@, "title"),
                                      ![l].idResult = {res},
                                      ![l].results = res]
            /\ UNCHANGED <<torrents, isLoading>>
       ELSE /\ loads' = [loads EXCEPT ![l].pc = "done",
                                      ![l].idResult =
                                          IF loads[l].pc = "withId" THEN {res} ELSE @,
                                      ![l].results = res]
            /\ torrents' = res
            /\ isLoading' = FALSE
    /\ UNCHANGED <<isOpen, callVars, cacheVars, fnVars>>

NextModal ==
    \/ \E media \in MediaTypes, id \in ModalIds : StartLoad(media, id)
    \/ CloseModal
    \/ \E l \in 1..Len(loads), id \in ModalIds : DetailsResolve(l, id)
    \/ \E l \in 1..Len(loads) : DetailsReject(l)
    \/ \E l \in 1..Len(loads) : \E res \in {<<>>, <<l>>} : AggResolve(l, res)

SpecModal == Init /\ [][NextModal]_vars

TypeOK ==
    /\ query \in Queries
    /\ type \in Types
    /\ imdbId \in ImdbIds
    /\ pc \in {"idle", "awaiting", "done"}
    /\ \A a \in AdapterIds : st[a] \in {"none", "fetch", "json", "fulfilled", "rejected"}
    /\ served \in 0..MaxEntries

(***************************************************************************)
(* Properties.                                                             *)
(***************************************************************************)
Invoked(a) == fetches[a] > 0

Returned == pc = "done"

\* the call got past the empty-title check and reached the join
Joined == pc = "done" /\ query # <<>>

HashSet(list) == {list[i].hash : i \in 1..Len(list)}

\* the adapter's try block ran to its return without reaching catch
Succeeded(a) == st[a] = "fulfilled" /\ ~resp[a].thrown

Failed(a) == st[a] = "fulfilled" /\ resp[a].thrown

Contribution(a) == IF Succeeded(a) THEN value[a] ELSE <<>>

\* the lists of the adapters that succeeded, in invocation order
SucceededUnion ==
    Contribution("YTS") \o Contribution("EZTV")
        \o Contribution("APIBay") \o Contribution("Solid")

\* position j holds the last candidate of its hash
LastOfHash(list, j) == \A k \in (j + 1)..Len(list) : list[k].hash # list[j].hash

HasSeeds(t) == \E n \in t.seeds : n > 0

\* C1: every candidate of the list fetchMovieDownloads returns has seeds > 0,
\* whatever the query and whatever the adapters answered.
C1_ReturnedSeedsPositive ==
    Returned => \A i \in 1..Len(result) : \E n \in result[i].seeds : n > 0

\* a dead or seedless candidate was merged and the returned list is not empty
C1_Witness ==
    /\ Joined
    /\ result # <<>>
    /\ \E i \in 1..Len(allTorrents) : allTorrents[i].seeds \in {{}, {0}}

\* C2: the returned list is ordered by seeds non-increasing: for all i < j,
\* result[i].seeds >= result[j].seeds.
C2_ReturnedSortedBySeeds ==
    Returned =>
        \A i \in 1..Len(result) : \A j \in (i + 1)..Len(result) :
            \A m \in result[i].seeds : \A n \in result[j].seeds : m >= n

\* two live candidates were merged in ascending order and both are returned
C2_Witness ==
    /\ Joined
    /\ Len(result) >= 2
    /\ \E i \in 1..Len(uniqueTorrents) : \E j \in (i + 1)..Len(uniqueTorrents) :
          \E m \in uniqueTorrents[i].seeds : \E n \in uniqueTorrents[j].seeds :
              m > 0 /\ m < n

\* C3: deduplication keeps exactly one entry per hash: a merged list with k
\* distinct hashes leaves exactly k entries, and no two returned candidates
\* share a hash.
C3_DedupOnePerHash ==
    Joined =>
        /\ Len(uniqueTorrents) = Cardinality(HashSet(allTorrents))
        /\ HashSet(uniqueTorrents) = HashSet(allTorrents)
        /\ \A i \in 1..Len(result) : \A j \in (i + 1)..Len(result) :
              result[i].hash # result[j].hash

\* two merged candidates shared a hash and one candidate of that hash is returned
C3_Witness ==
    /\ Joined
    /\ Len(allTorrents) = 2
    /\ allTorrents[1].hash = allTorrents[2].hash
    /\ Len(uniqueTorrents) = 1
    /\ Len(result) = 1

\* C4: when some adapters fail, the call still returns, and the returned list
\* is the deduplicated, filtered, sorted union of the lists of the adapters
\* that succeeded: a failed adapter adds nothing and removes nothing.
C4_PartialFailureUnion ==
    Joined =>
        LET U == SucceededUnion IN
        /\ \A i \in 1..Len(result) :
              \E j \in 1..Len(U) :
                  U[j] = result[i] /\ HasSeeds(U[j]) /\ LastOfHash(U, j)
        /\ \A j \in 1..Len(U) :
              (HasSeeds(U[j]) /\ LastOfHash(U, j)) =>
                  \E i \in 1..Len(result) : result[i] = U[j]
        /\ Len(result) = Cardinality({j \in 1..Len(U) : HasSeeds(U[j]) /\ LastOfHash(U, j)})
        /\ \A i \in 1..Len(result) : \A j \in (i + 1)..Len(result) :
              SeedsOf(result[i]) >= SeedsOf(result[j])

\* one adapter failed, two others succeeded with a live candidate each, and
\* both candidates are returned
C4_Witness ==
    /\ Joined
    /\ \E a \in AdapterIds : Failed(a)
    /\ \E a, b \in AdapterIds :
          a # b /\ Succeeded(a) /\ Succeeded(b) /\ value[a] # <<>> /\ value[b] # <<>>
    /\ Len(result) = 2

AllSettled == \A i \in 1..Len(promises) : Settled(promises[i])

\* C5: no adapter error makes fetchMovieDownloads reject: once every adapter
\* has settled the call can return whatever the outcomes were, and when every
\* eligible adapter failed it returns the empty list.
C5_NeverRejectsEmptyOnFailure ==
    /\ (pc = "awaiting" /\ AllSettled) => ENABLED Join
    /\ (Joined /\ \A i \in 1..Len(promises) : Failed(promises[i])) => result = <<>>

\* three adapters were started, all three failed, the call returned
C5_Witness ==
    /\ Joined
    /\ Len(promises) = 3
    /\ \A i \in 1..Len(promises) : Failed(promises[i])
    /\ result = <<>>

\* C6: each adapter alone never raises: on a network error, a JSON parse
\* error or a response of unexpected shape (missing or wrongly typed fields)
\* its promise fulfils with the empty list.
C6_AdapterEmptyOnBadResponse ==
    \A a \in AdapterIds :
        /\ st[a] # "rejected"
        /\ (st[a] = "fulfilled" /\ (resp[a].thrown \/ resp[a].malformed))
              => value[a] = <<>>

Blank(s) == \A i \in 1..Len(s) : s[i] = " "

\* C7: for an empty or blank title the call returns the empty list and no
\* adapter issues a network call.
C7_BlankTitleNoNetwork ==
    (pc # "idle" /\ Blank(query)) =>
        /\ \A a \in AdapterIds : ~Invoked(a)
        /\ pc = "done"
        /\ result = <<>>

\* C8 as stated: for a non-empty title the episodic adapter is invoked iff
\* the kind is series and the identifier is non-empty.
C8_EztvIffSeriesAndId ==
    (pc # "idle" /\ query # <<>>) =>
        (Invoked("EZTV") <=> (type = "tv" /\ \E s \in imdbId : s # <<>>))

\* C8 amended: for a non-empty title the episodic adapter is invoked iff the
\* kind is series and the identifier is neither absent, nor empty, nor the
\* bare prefix "tt" (which is empty once the prefix is stripped).
C8_EztvIffSeriesAndNumericId ==
    (pc # "idle" /\ query # <<>>) =>
        (Invoked("EZTV") <=>
            (type = "tv" /\ \E s \in imdbId : s # <<>> /\ s # <<"t", "t">>))

\* a series query with an identifier started the episodic adapter
C8_Witness ==
    /\ pc = "awaiting"
    /\ type = "tv"
    /\ imdbId = {<<"t", "t", "1">>}
    /\ Invoked("EZTV")
    /\ promises = <<"EZTV", "APIBay", "Solid">>

\* C9: for a non-empty title the movie-catalog adapter is invoked iff the
\* kind is movie, with or without an identifier.
C9_YtsIffMovie ==
    (pc # "idle" /\ query # <<>>) => (Invoked("YTS") <=> type = "movie")

\* a movie query without identifier started the movie-catalog adapter
C9_Witness ==
    /\ pc = "awaiting"
    /\ type = "movie"
    /\ imdbId = {}
    /\ Invoked("YTS")
    /\ st["YTS"] = "fetch"

\* C10 as stated: both general adapters are invoked on every call.
C10_GeneralAlways ==
    pc # "idle" => (Invoked("APIBay") /\ Invoked("Solid"))

\* C10 amended: both general adapters are invoked on every call with a
\* non-empty title, for either kind and with or without an identifier.
C10_GeneralForNonEmptyTitle ==
    (pc # "idle" /\ query # <<>>) => (Invoked("APIBay") /\ Invoked("Solid"))

\* a series query without identifier started exactly the two general adapters
C10_Witness ==
    /\ pc = "awaiting"
    /\ type = "tv"
    /\ imdbId = {}
    /\ promises = <<"APIBay", "Solid">>
    /\ Invoked("APIBay")
    /\ Invoked("Solid")

\* C11: the adapters run concurrently: every eligible adapter has issued its
\* request before any response is awaited, and an adapter that has not
\* answered yet keeps no other adapter from receiving its response.
C11_ConcurrentFanOut ==
    /\ pc = "awaiting" =>
          \A i \in 1..Len(promises) :
              Invoked(promises[i]) /\ st[promises[i]] # "none"
    /\ \A a \in AdapterIds :
          /\ st[a] = "fetch" => (ENABLED FetchResolve(a) /\ ENABLED FetchReject(a))
          /\ st[a] = "json" => ENABLED JsonReject(a)

\* the first adapter has not answered while the two later ones have completed
\* with candidates
C11_Witness ==
    /\ pc = "awaiting"
    /\ promises = <<"YTS", "APIBay", "Solid">>
    /\ st["YTS"] = "fetch"
    /\ st["APIBay"] = "fulfilled" /\ value["APIBay"] # <<>>
    /\ st["Solid"] = "fulfilled" /\ value["Solid"] # <<>>

\* the same call with responses of at most one row each
NextLive ==
    \/ \E q \in Queries, t \in Types, id \in ImdbIds : Call(q, t, id)
    \/ \E a \in AdapterIds : FetchReject(a)
    \/ \E a \in AdapterIds : FetchResolve(a)
    \/ \E a \in AdapterIds : JsonReject(a)
    \/ \E a \in AdapterIds :
          \E body \in Bodies(IF served < MaxEntries THEN 1 ELSE 0) : JsonResolve(a, body)
    \/ Join

\* the continuation after await Promise.allSettled(...) runs once it resolves
LiveSpec == Init /\ [][NextLive]_vars /\ WF_vars(Join)

\* C12: the join is settle-all: no result is produced before every eligible
\* adapter has settled, a failed adapter does not end the wait early, and
\* once every eligible adapter has settled the call returns.
C12_SettleAllJoin ==
    /\ [](Joined => \A i \in 1..Len(promises) : Settled(promises[i]))
    /\ [](\A a \in AdapterIds :
            (Failed(a) /\ \E i \in 1..Len(promises) : ~Settled(promises[i]))
                => pc = "awaiting")
    /\ ((pc = "awaiting" /\ \A i \in 1..Len(promises) : Settled(promises[i]))
            ~> pc = "done")

\* the first adapter failed, the last one succeeded, and the call returned
\* the last one's candidate
C12_Witness ==
    /\ Joined
    /\ Len(promises) = 3
    /\ Failed(promises[1])
    /\ Succeeded(promises[3])
    /\ result = value[promises[3]]
    /\ result # <<>>

\* C14: no retry: within one call every eligible adapter issues exactly one
\* network request, and an adapter that failed is not attempted again.
C14_OneRequestPerAdapter ==
    /\ \A a \in AdapterIds : fetches[a] <= 1
    /\ (pc # "idle" /\ query # <<>>) =>
          \A i \in 1..Len(promises) : fetches[promises[i]] = 1
    /\ \A a \in AdapterIds : Failed(a) => (fetches[a] = 1 /\ st[a] = "fulfilled")

\* every started adapter failed, the call returned, one request each was made
C14_Witness ==
    /\ Joined
    /\ promises = <<"EZTV", "APIBay", "Solid">>
    /\ \A i \in 1..Len(promises) : Failed(promises[i]) /\ fetches[promises[i]] = 1
    /\ fetches["YTS"] = 0

Pos(list, h) == CHOOSE i \in 1..Len(list) : list[i].hash = h

\* C16: candidates with equal seeds keep in the returned list the relative
\* order they had after deduplication and filtering.
C16_TiesKeepOrder ==
    Joined =>
        \A p \in 1..Len(result) : \A q \in (p + 1)..Len(result) :
            result[p].seeds = result[q].seeds =>
                Pos(uniqueTorrents, result[p].hash) < Pos(uniqueTorrents, result[q].hash)

\* two candidates with the same seed count are returned
C16_Witness ==
    /\ Joined
    /\ Len(result) = 2
    /\ result[1].seeds = result[2].seeds
    /\ result[1].hash # result[2].hash

\* C18: APIBay never turns a "no results" row (id '0') into a candidate: a
\* response that contains it is an empty result set.
C18_NoSentinelCandidate ==
    /\ \A i \in 1..Len(value["APIBay"]) : value["APIBay"][i].hash # SentinelEntry.hash
    /\ \A i \in 1..Len(result) :
          result[i].src = "APIBay" => result[i].hash # SentinelEntry.hash

\* C13: when an adapter's HTTP response has a non-success status, the adapter
\* contributes the empty list whatever the body holds.
C13_ErrorStatusContributesNothing ==
    \A a \in AdapterIds :
        (st[a] = "fulfilled" /\ httpStatus[a] = "failure") => value[a] = <<>>

\* C15: the download aggregation never touches the shared response cache:
\* every step of a fetchMovieDownloads call leaves apiCache as it was, and a
\* call repeated with the same arguments issues every request again.
C15_CacheUntouched ==
    [][ /\ (pc' # pc \/ st' # st \/ fetches' # fetches \/ calls' # calls)
            => apiCache' = apiCache
        /\ (calls' = calls + 1 /\ query' # <<>>) =>
              /\ pc' = "awaiting"
              /\ promises' # <<>>
              /\ \A i \in 1..Len(promises') :
                    fetches'[promises'[i]] = fetches[promises'[i]] + 1
      ]_vars

\* the cache holds an entry and a second call has issued its requests again
C15_Witness ==
    /\ calls = 2
    /\ pc = "awaiting"
    /\ fetches["APIBay"] = 2
    /\ fetches["Solid"] = 2
    /\ \E k \in CacheKeys : apiCache[k] # {}

\* the rows of the response handed to the adapter
Rows == fnArgs.body.list

Applied(a) == fnDone /\ fnArgs.a = a

\* C17 as stated: whatever the number of rows its source returns, an adapter
\* contributes at most 10 candidates, and the episodic and the two general
\* adapters at most 8.
C17_EveryAdapterCapped ==
    fnDone =>
        /\ Len(fnOut) <= 10
        /\ fnArgs.a # "YTS" => Len(fnOut) <= 8

\* C17: the episodic and the two general adapters contribute at most 8
\* candidates however many rows the source returns; the movie catalog
\* contributes one candidate for every torrent row of the first movie.
C17_CappedExceptMovieCatalog ==
    fnDone =>
        /\ fnArgs.a # "YTS" =>
              /\ Len(fnOut) <= 8
              /\ Len(fnOut) <= Len(Rows)
        /\ (fnArgs.a = "YTS" /\ ~Malformed("YTS", fnArgs.body)) =>
              Len(fnOut) = Len(Rows)

\* a general adapter is handed more than 8 rows and contributes exactly 8
C17_Witness ==
    /\ Applied("APIBay")
    /\ Len(Rows) > 8
    /\ Len(fnOut) = 8

\* the season and episode a release title names: its own S<n>E<n>
EpisodeOf(title) == SeasonEpisodePattern(TitleText(title))

\* C19: when the query holds S<n>E<n>, every candidate of the episodic adapter
\* comes from a row whose title contains that pattern, and no candidate comes
\* from a row for another season or episode.
C19_OnlyRequestedEpisode ==
    (Applied("EZTV") /\ SeasonEpisodePattern(fnArgs.cleanQuery) # <<>>) =>
        \A i \in 1..Len(fnOut) :
            /\ ContainsWord(TitleText(fnOut[i].title),
                            SeasonEpisodePattern(fnArgs.cleanQuery))
            /\ EpisodeOf(fnOut[i].title) = SeasonEpisodePattern(fnArgs.cleanQuery)

QualityTiers == {ToUpperCase(QualityWords[i]) : i \in 1..Len(QualityWords)}

ToLowerCase(s) == [i \in 1..Len(s) |-> Lower(s[i])]

HasQualityToken(title) ==
    \E i \in 1..Len(QualityWords) : ContainsWord(TitleText(title), QualityWords[i])

\* C20: no candidate of the episodic adapter carries quality UNKNOWN: it is
\* HD when the row's title holds no quality token, and otherwise a tier that
\* stands in the title.
C20_NoUnknownQuality ==
    Applied("EZTV") =>
        \A i \in 1..Len(fnOut) :
            /\ fnOut[i].quality # SUNKNOWN
            /\ ~HasQualityToken(fnOut[i].title) => fnOut[i].quality = SHD
            /\ HasQualityToken(fnOut[i].title) =>
                  /\ fnOut[i].quality \in QualityTiers
                  /\ ContainsWord(TitleText(fnOut[i].title), ToLowerCase(fnOut[i].quality))

\* the episodic adapter contributes a candidate without a quality token in
\* its title and one with a token
C20_Witness ==
    /\ Applied("EZTV")
    /\ Len(fnOut) = 2
    /\ fnOut[1].title = "Show.S01E02.HDTV" /\ fnOut[1].quality = SHD
    /\ fnOut[2].title = "show.s01e10.720p" /\ fnOut[2].quality = ToUpperCase(Q720)

\* C21 as stated: every returned candidate has a quality among the tiers
\* 2160P, 4K, 1080P, 720P, 480P and UNKNOWN.
C21_QualityInEnumeratedTiers ==
    Joined =>
        \A i \in 1..Len(result) : result[i].quality \in QualityTiers \cup {SUNKNOWN}

\* C21: a returned candidate of the episodic or a general adapter has a
\* quality among 2160P, 4K, 1080P, 720P, 480P and HD, never UNKNOWN; a
\* returned candidate of the movie catalog carries the quality text of its
\* row as it is.
C21_QualityTierOrHdOrCatalogText ==
    Joined =>
        \A i \in 1..Len(result) :
            /\ result[i].src # "YTS" => result[i].quality \in QualityTiers \cup {SHD}
            /\ result[i].src = "YTS" => result[i].quality = Q1080

\* a call returns a catalog candidate with the catalog's lower-case text and
\* a general candidate with a parsed tier
C21_Witness ==
    /\ Joined
    /\ \E i \in 1..Len(result) : result[i].src = "YTS" /\ result[i].quality = Q1080
    /\ \E i \in 1..Len(result) :
          result[i].src = "APIBay" /\ result[i].quality = ToUpperCase(Q720)

\* the first position of s where one of the words stands, 0 when none does
FirstPosition(s, words) ==
    LET hits == {i \in 1..Len(s) : \E k \in 1..Len(words) : MatchesAt(s, i, words[k])}
    IN  IF hits = {} THEN 0 ELSE CHOOSE x \in hits : \A y \in hits : x <= y

\* the upper-cased word of words that stands in s at position i
UpperWordAt(s, i, words) ==
    ToUpperCase(words[CHOOSE k \in 1..Len(words) : MatchesAt(s, i, words[k])])

IsPrefix(p, s) == Len(p) <= Len(s) /\ SubSeq(s, 1, Len(p)) = p

\* C22: parseTorrentName returns for every name a value: the quality is the
\* upper-cased first occurrence of a resolution token, UNKNOWN when there is
\* none; the tag begins with the upper-cased first occurrence of a source
\* token, WEBRIP when there is none; the example name gives 1080P and
\* BLURAY (HEVC).
C22_ParserFirstOccurrence ==
    fnDone =>
        LET name == fnArgs.name
            qp == FirstPosition(name, QualityWords)
            tp == FirstPosition(name, TypeWords)
        IN  /\ fnOut.quality =
                  IF qp = 0 THEN SUNKNOWN ELSE UpperWordAt(name, qp, QualityWords)
            /\ IsPrefix(IF tp = 0 THEN ToUpperCase(SWEBRip)
                        ELSE UpperWordAt(name, tp, TypeWords), fnOut.type)
            /\ name = ExampleName =>
                  /\ fnOut.quality = ToUpperCase(Q1080)
                  /\ fnOut.type = ToUpperCase(TBLURAY) \o SHevcSuffix

\* a name with two resolution tokens, the later one earlier in the
\* alternation, is parsed to the one that stands first in the name
C22_Witness ==
    /\ fnDone
    /\ FirstPosition(fnArgs.name, QualityWords) > 0
    /\ ContainsWord(fnArgs.name, Q1080)
    /\ fnOut.quality = ToUpperCase(Q720)
    /\ fnOut.type = ToUpperCase(SWEBRip)

\* the upper-cased source token of the name, WEBRIP when there is none
BaseType(name) ==
    IF FirstPosition(name, TypeWords) = 0 THEN ToUpperCase(SWEBRip)
    ELSE UpperWordAt(name, FirstPosition(name, TypeWords), TypeWords)

\* C23: the tag is the upper-cased base type followed by ' (HEVC)' when the
\* name holds x265 or hevc, else by ' (x264)' in exactly this casing when it
\* holds x264, else by nothing.
C23_CodecSuffixFixedCasing ==
    fnDone =>
        fnOut.type =
            BaseType(fnArgs.name) \o
                (IF ContainsWord(fnArgs.name, CX265) \/ ContainsWord(fnArgs.name, CHEVC)
                 THEN SHevcSuffix
                 ELSE IF ContainsWord(fnArgs.name, CX264) THEN SX264Suffix
                 ELSE <<>>)

\* the entry under key k is as old as the window or older
Stale(k) == \E ts \in apiCache[k] : now - ts >= CACHE_DURATION

\* a metadata call answers from the entry under key k
ReturnsCached(k) == IF k = GenresCombined THEN GenreHit ELSE TmdbHit(k)

\* C24: no metadata call, fetchFromTMDB or getGenreList, returns a cached
\* value whose age is at least the window.
C24_EveryEntryExpires ==
    \A k \in CacheKeys \cup {GenresCombined} : Stale(k) => ~ENABLED ReturnsCached(k)

\* the lists the adapters returned, in invocation order
InvocationOrder == value["YTS"] \o value["EZTV"] \o value["APIBay"] \o value["Solid"]

\* C25: among merged candidates that share a hash, deduplication keeps the
\* last one in concatenation order (invocation order, then position in the
\* adapter's list).
C25_DedupKeepsLast ==
    Joined =>
        /\ allTorrents = InvocationOrder
        /\ \A i \in 1..Len(uniqueTorrents) :
              \E j \in 1..Len(allTorrents) :
                  /\ uniqueTorrents[i] = allTorrents[j]
                  /\ LastOfHash(allTorrents, j)

\* the movie catalog and a general adapter reported the same hash with
\* different seed counts, and the general adapter's candidate was kept
C25_Witness ==
    /\ Joined
    /\ Len(value["YTS"]) = 1
    /\ Len(value["Solid"]) = 1
    /\ value["YTS"][1].hash = value["Solid"][1].hash
    /\ value["YTS"][1].seeds # value["Solid"][1].seeds
    /\ uniqueTorrents = value["Solid"]

\* C26: the returned list is a function of the adapters' lists taken in
\* invocation order: whatever the order in which the adapters completed, it
\* is the sorted, filtered, deduplicated concatenation in invocation order.
C26_CompletionOrderIrrelevant ==
    Joined => result = Sort(Filter(Dedup(InvocationOrder)))

\* two adapters returned different hashes with equal seeds, and the returned
\* list holds them in invocation order
C26_Witness ==
    /\ Joined
    /\ Len(result) = 2
    /\ result[1].src = "APIBay"
    /\ result[2].src = "Solid"
    /\ result[1].seeds = result[2].seeds
    /\ result[1].hash # result[2].hash

\* C27: every hash for which a succeeding adapter returned a candidate with
\* seeds > 0 appears in the returned list.
C27_LiveHashReturned ==
    Joined =>
        \A a \in AdapterIds : \A i \in 1..Len(Contribution(a)) :
            HasSeeds(Contribution(a)[i]) =>
                \E j \in 1..Len(result) : result[j].hash = Contribution(a)[i].hash

InFlight(l) == loads[l].pc # "done"

\* C28: once every load has completed, the torrents displayed are those of
\* the load started last.
C28_LatestLoadDisplayed ==
    (loads # <<>> /\ \A l \in 1..Len(loads) : ~InFlight(l)) =>
        torrents = loads[Len(loads)].results

\* C29: isLoading is true whenever a load is still in flight.
C29_LoadingWhileInFlight ==
    (\E l \in 1..Len(loads) : InFlight(l)) => isLoading

\* the load has an identifier, its own or the one getMovieDetails gave
HasId(l) == Truthy(loads[l].imdbId)

\* C30: a movie load searches by title exactly when it has no identifier or
\* the search with the identifier returned the empty list; a non-empty
\* result of the search with the identifier is displayed without a second
\* search; a series load makes exactly one search.
C30_TitleSearchOnlyAsFallback ==
    \A l \in 1..Len(loads) :
        LET L == loads[l] IN
        /\ (L.media = "movie" /\ L.pc # "details") =>
              /\ L.calls \in {<<"id">>, <<"title">>, <<"id", "title">>}
              /\ L.calls[1] = "id" <=> HasId(l)
              /\ L.calls[Len(L.calls)] = "title" <=> (~HasId(l) \/ L.idResult = {<<>>})
              /\ (L.idResult # {} /\ L.idResult # {<<>>}) =>
                    (L.pc = "done" /\ L.idResult = {L.results})
        /\ (L.media = "tv" /\ L.pc # "details") => L.calls = <<"series">>

\* a movie load with an identifier searched twice and shows the list found
\* by title; another movie load shows the list found with the identifier
C30_Witness ==
    /\ Len(loads) = 2
    /\ loads[1].pc = "done" /\ loads[1].calls = <<"id", "title">>
    /\ loads[1].results = <<1>>
    /\ loads[2].pc = "done" /\ loads[2].calls = <<"id">>
    /\ torrents = <<2>>

====
